---- MODULE Spec2Model ----
(***************************************************************************)
(* A model of src/app.py: one Streamlit session of the Apps Script tutor.  *)
(* A step of the model is one script run, triggered by one widget of the   *)
(* page: the idea form (generate, reset) or the admin portal (login, file  *)
(* upload, knowledge reset, logout).                                       *)
(*                                                                         *)
(* Strings are sequences of tokens.  A token is a word, a brace, a blank,  *)
(* a line break "NL", or one key phrase of the rule tables.  Korean        *)
(* phrases of the source are written in ASCII, with the original meaning   *)
(* beside the table.  A score is kept in tenths (8 is 0.8), so that the    *)
(* arithmetic is exact; the rounding of the binary floating point results  *)
(* (0.8 - 0.3 - 0.3 is 0.19999999999999996 in Python) is not modelled.     *)
(***************************************************************************)
EXTENDS Integers, Sequences, FiniteSets, TLC

VARIABLES
    client,            \* line 47-55: "client" when OpenAI() was built, else "None"
    ADMIN_PASSWORD,    \* line 43
    ADMIN_LINK_TOKEN,  \* line 44
    query_admin,       \* st.query_params.get("admin") of the session's URL
    corpus_text,       \* st.session_state.corpus_text
    is_admin,          \* st.session_state.is_admin
    last_result,       \* st.session_state.last_result
    uploads,           \* the batch st.file_uploader returned last (line 434)
    run                \* what the last script run did

vars == <<client, ADMIN_PASSWORD, ADMIN_LINK_TOKEN, query_admin,
          corpus_text, is_admin, last_result, uploads, run>>

config == <<client, ADMIN_PASSWORD, ADMIN_LINK_TOKEN, query_admin>>

\* ------------------------------------------------------------------ bounds
\* Files in one upload batch.
MaxBatch == 2

\* line 305: the knowledge snapshot is cut to its first 8000 characters.
KnowledgeBudget == 8000

\* ------------------------------------------------------------ string utils
Min(a, b) == IF a < b THEN a ELSE b
Max(a, b) == IF a > b THEN a ELSE b

Take(s, n) == SubSeq(s, 1, Min(Len(s), n))

Positions(s, t) == {i \in 1..Len(s) : s[i] = t}

SetMin(S) == CHOOSE m \in S : \A o \in S : m <= o
SetMax(S) == CHOOSE m \in S : \A o \in S : m >= o

\* str.strip(): blanks are cut from both ends.
Strip(s) ==
    LET solid == {i \in 1..Len(s) : s[i] # " "}
    IN  IF solid = {} THEN <<>> ELSE SubSeq(s, SetMin(solid), SetMax(solid))

\* sep.join(parts)
RECURSIVE Join(_, _)
Join(parts, sep) ==
    IF Len(parts) = 0 THEN <<>>
    ELSE IF Len(parts) = 1 THEN parts[1]
    ELSE parts[1] \o sep \o Join(Tail(parts), sep)

\* ------------------------------------------------------------- _sha256
\* hashlib.sha256(s.encode()).hexdigest(): a digest per string, with no two
\* of the strings of the model sharing one.
_sha256(s) == <<"sha256", s>>

\* ----------------------------------------------------------- _rule_check
\* re.I: the case folding of the tokens that have an upper case spelling.
Fold(t) ==
    CASE t = "EXE" -> "exe"
      [] t = "MSI" -> "msi"
      [] t = "GPIO" -> "gpio"
      [] t = "OAuth" -> "oauth"
      [] t = "PDF" -> "pdf"
      [] OTHER -> t

\* line 64-70.  Alternatives, in the order of the source:
\*   1 exe | msi | registry | local program | system file
\*   2 websocket server | socket always-on
\*   3 serial port | GPIO | bluetooth device control | raspberry pi
\*   4 video encoding | STT realtime large-scale | audio realtime editing
\*   5 infinite loop | 24h always running | always on
DISALLOWED == <<
    [name |-> "local program / OS access",
     pat |-> {"exe", "msi", "registry", "local program", "system file"}],
    [name |-> "persistent realtime socket server",
     pat |-> {"websocket server", "socket always-on"}],
    [name |-> "direct hardware control",
     pat |-> {"serial port", "GPIO", "bluetooth device control", "raspberry pi"}],
    [name |-> "heavy media processing",
     pat |-> {"video encoding", "STT realtime large-scale", "audio realtime editing"}],
    [name |-> "long synchronous work",
     pat |-> {"infinite loop", "24h always running", "always on"}] >>

\* line 71-75:
\*   1 mass crawling | thousands of pages
\*   2 kakao | naver | slack | notion OAuth
\*   3 mail to thousands | mass push
CAUTION == <<
    [name |-> "large-scale crawling",
     pat |-> {"mass crawling", "thousands of pages"}],
    [name |-> "complex external OAuth",
     pat |-> {"kakao", "naver", "slack", "notion OAuth"}],
    [name |-> "mass mail / notification",
     pat |-> {"mail to thousands", "mass push"}] >>

\* re.search(pat, text, re.I): some alternative occurs in the text.
re_search(pat, text) ==
    LET alts == {Fold(alt) : alt \in pat}
    IN  \E i \in DOMAIN text : Fold(text[i]) \in alts

\* line 77-80: the names of the rows whose pattern matches, in table order.
Matched(table, text) ==
    LET hits == SelectSeq(table, LAMBDA row : re_search(row.pat, text))
    IN  [i \in DOMAIN hits |-> hits[i].name]

\* A penalty for each violation, not one for all of them.
RawScorePerViolation(viol, caut) ==
    8 - 3 * Len(viol) - 1 * Len(caut)

\* line 83, in tenths: 0.8 - 0.3*bool(viol) - 0.1*len(caut)
RawScore(viol, caut) ==
    8 - 3 * (IF viol # <<>> THEN 1 ELSE 0) - 1 * Len(caut)

\* line 84: max(0.0, min(1.0, score))
Clamp(score) == Max(0, Min(10, score))

_rule_check(text) ==
    LET viol == Matched(DISALLOWED, text)
        caut == Matched(CAUTION, text)
    IN  [score |-> Clamp(RawScore(viol, caut)), violations |-> viol, cautions |-> caut]

\* ---------------------------------------------------- _read_file_to_text
\* An upload: the extension of its name and its bytes.  A PDF is a sequence
\* of pages (the text extract_text() gives, <<>> for None or "") or is
\* broken, which makes PdfReader raise.
NotesTxt == [ext |-> "txt", bytes |-> <<"a", "0xFF", "b">>, pages |-> <<>>, broken |-> FALSE]
SlidesPdf == [ext |-> "PDF", bytes |-> <<>>, pages |-> << <<"c">>, <<>> >>, broken |-> FALSE]
BrokenPdf == [ext |-> "pdf", bytes |-> <<"0xFF">>, pages |-> <<>>, broken |-> TRUE]

Files == {NotesTxt, SlidesPdf, BrokenPdf}

\* line 7-10: pypdf is installed where the application runs.
PdfReaderImported == TRUE

\* bytes.decode("utf-8", errors="ignore"): the invalid bytes are dropped.
DecodeIgnore(bytes) == SelectSeq(bytes, LAMBDA b : b # "0xFF")

_read_file_to_text(upload) ==
    IF Fold(upload.ext) = "pdf"
    THEN IF ~PdfReaderImported THEN <<"[PDF parse failed] pypdf missing">>
         ELSE IF upload.broken THEN <<"[PDF parse failed]", "e">>
         ELSE Join(upload.pages, <<"NL">>)
    ELSE DecodeIgnore(upload.bytes)

\* line 436-439: "\n\n".join(texts) of the texts of the batch, in order.
Texts(batch) == [i \in 1..Len(batch) |-> _read_file_to_text(batch[i])]

JoinTexts(batch) == Join(Texts(batch), <<"NL", "NL">>)

RECURSIVE SeqsUpTo(_, _)
SeqsUpTo(S, n) ==
    IF n = 0 THEN {<<>>}
    ELSE LET shorter == SeqsUpTo(S, n - 1)
         IN  shorter \cup {Append(q, x) : q \in shorter, x \in S}

Batches == SeqsUpTo(Files, MaxBatch) \ {<<>>}

\* ------------------------------------------------------------------ JSON
\* line 183-196: the top-level keys of the report.
Keys == {"feasibility", "adjustments", "blueprint", "gas_snippets",
         "risks", "prd", "next_steps"}

\* A JSON text is a token sequence.  The token of a key stands for one
\* member  "key": value  with a value of the type the schema gives; it
\* occurs only between the braces of an object.  "7" is a number, "null"
\* is null, "w" is a word that is no JSON.
NoneValue == [kind |-> "None", keys |-> {}]
JsonError == [ok |-> FALSE, value |-> NoneValue]

\* json.loads(text)
json_loads(text) ==
    LET t == SelectSeq(text, LAMBDA c : c # " ")
    IN  IF t = <<"null">> THEN [ok |-> TRUE, value |-> NoneValue]
        ELSE IF t = <<"7">> THEN [ok |-> TRUE, value |-> [kind |-> "number", keys |-> {}]]
        ELSE IF /\ Len(t) >= 2
                /\ t[1] = "{"
                /\ t[Len(t)] = "}"
                /\ \A i \in 2..(Len(t) - 1) : t[i] \in Keys
             THEN [ok |-> TRUE,
                   value |-> [kind |-> "object",
                              keys |-> {t[i] : i \in 2..(Len(t) - 1)}]]
        ELSE JsonError

\* line 318: re.search(r"\{[\s\S]*\}", raw): from the first "{" to the last
\* "}" after it; no match when no "}" follows the first "{".
BraceMatch(raw) ==
    LET opens == Positions(raw, "{")
        closes == Positions(raw, "}")
    IN  IF opens # {} /\ closes # {} /\ SetMin(opens) < SetMax(closes)
        THEN [found |-> TRUE, text |-> SubSeq(raw, SetMin(opens), SetMax(closes))]
        ELSE [found |-> FALSE, text |-> <<>>]

NoCode == [shown |-> FALSE, text |-> <<>>]

\* line 313-325: the parse stage.  status is "parsed", "failed" (line 322-325:
\* the error, the raw text and st.stop()) or "raised" (line 320: json.loads
\* of the matched text raises and nothing catches it).
ParseReply(raw) ==
    LET strict == json_loads(raw)
        m == BraceMatch(raw)
        inner == json_loads(m.text)
    IN  IF strict.ok THEN [status |-> "parsed", data |-> strict.value, code |-> NoCode]
        ELSE IF m.found
             THEN IF inner.ok
                  THEN [status |-> "parsed", data |-> inner.value, code |-> NoCode]
                  ELSE [status |-> "raised", data |-> NoneValue, code |-> NoCode]
        ELSE [status |-> "failed", data |-> NoneValue,
              code |-> [shown |-> TRUE, text |-> raw]]

\* ---------------------------------------------------------- _call_openai
\* What the endpoint answers to a request: an exception, or a message
\* content (<<>> for None or "").
NoReply == [ok |-> FALSE, text |-> <<>>]

\* The request is made without a look at the client.
_call_openai_unguarded(resp) ==
    IF resp.kind = "exception"
    THEN [raw |-> NoReply, calls |-> 1, error |-> "call failed"]
    ELSE IF resp.content = <<>>
    THEN [raw |-> NoReply, calls |-> 1, error |-> "empty response"]
    ELSE [raw |-> [ok |-> TRUE, text |-> Strip(resp.content)], calls |-> 1, error |-> ""]

\* A request that failed is made once more.
_call_openai_retry(resp) ==
    IF client = "None"
    THEN [raw |-> NoReply, calls |-> 0, error |-> "not configured"]
    ELSE IF resp.kind = "exception"
    THEN [raw |-> NoReply, calls |-> 2, error |-> "call failed"]
    ELSE IF resp.content = <<>>
    THEN [raw |-> NoReply, calls |-> 2, error |-> "empty response"]
    ELSE [raw |-> [ok |-> TRUE, text |-> Strip(resp.content)], calls |-> 1, error |-> ""]

_call_openai(resp) ==
    IF client = "None"
    THEN [raw |-> NoReply, calls |-> 0, error |-> "not configured"]
    ELSE IF resp.kind = "exception"
    THEN [raw |-> NoReply, calls |-> 1, error |-> "call failed"]
    ELSE IF resp.content = <<>>
    THEN [raw |-> NoReply, calls |-> 1, error |-> "empty response"]
    ELSE [raw |-> [ok |-> TRUE, text |-> Strip(resp.content)], calls |-> 1, error |-> ""]

\* ------------------------------------------------------------- rendering
\* line 339-408: the default data.get(key, default) gives for each key.
Default(key) ==
    CASE key = "feasibility" -> "{}"
      [] key = "blueprint" -> "{}"
      [] key = "prd" -> "''"
      [] OTHER -> "[]"

NoView == [k \in Keys |-> "unread"]

\* bool(data) of line 333
Truthy(data) ==
    \/ data.kind = "number"
    \/ data.kind = "object" /\ data.keys # {}

\* line 332-414: the result section.  Nothing is drawn for a falsy
\* last_result; data.get raises on a value that is no dict.
Render(data) ==
    IF ~Truthy(data) THEN [rendered |-> FALSE, error |-> FALSE, view |-> NoView]
    ELSE IF data.kind # "object" THEN [rendered |-> FALSE, error |-> TRUE, view |-> NoView]
    ELSE [rendered |-> TRUE, error |-> FALSE,
          view |-> [k \in Keys |-> IF k \in data.keys THEN "value" ELSE Default(k)]]

NoRender == [rendered |-> FALSE, error |-> FALSE, view |-> NoView]

\* ------------------------------------------------------------- the inputs
\* What the user types into a field of the idea form.
FieldTexts == {<<>>, <<"plain">>}
FeatureTexts == {<<>>, <<"EXE", "kakao">>}

Forms == [title : FieldTexts, users : FieldTexts, desc : FieldTexts,
          features : FeatureTexts]

EmptyForm == [title |-> <<>>, users |-> <<>>, desc |-> <<>>, features |-> <<>>]

\* What the endpoint may answer.  The body of a content is an object with
\* some of the keys, a number, null, an object with a word in it, an object
\* cut short, or nothing; it comes bare or with prose around it.
KeySets == {{}, {"prd"}, Keys}

KeySeq == <<"feasibility", "adjustments", "blueprint", "gas_snippets",
            "risks", "prd", "next_steps">>

ObjectText(K) == <<"{">> \o SelectSeq(KeySeq, LAMBDA k : k \in K) \o <<"}">>

Bodies == {ObjectText(K) : K \in KeySets}
              \cup {<<>>, <<"7">>, <<"null">>, <<"{", "w", "}">>, <<"{", "prd">>}

Contents ==
    Bodies
        \cup {<<"w">> \o body \o <<"w">> : body \in Bodies}
        \cup {<<" ">>,
              <<" ", "{", "prd", "}", " ">>,
              <<"}", "w", "{">>,
              <<"{", "}", "w", "{", "prd", "}">>}

Responses == {[kind |-> "exception", content |-> <<>>]}
                 \cup {[kind |-> "content", content |-> c] : c \in Contents}

Passwords == {"", "pw", "guess"}
Tokens == {"", "tok", "other"}

\* ------------------------------------------------------------ a script run
NoRuleCheck == [score |-> 0, violations |-> <<>>, cautions |-> <<>>]

\* What a run leaves behind when it draws nothing of the pipeline.
BlankRun ==
    [op |-> "none", form |-> EmptyForm, pwd |-> "", accepted |-> FALSE,
     text |-> <<>>, rc |-> NoRuleCheck, knowledge |-> <<>>, stages |-> <<>>, calls |-> 0,
     raw |-> NoReply, outcome |-> "", error |-> "", code |-> NoCode,
     data |-> NoneValue, render |-> NoRender, ended |-> "end"]

\* The description may stand in for the features.
AcceptedWithEither(form) ==
    ~(form.title = <<>> \/ form.users = <<>>
        \/ (form.desc = <<>> /\ form.features = <<>>))

\* line 255: the three fields the form must hold.
Accepted(form) ==
    ~(form.title = <<>> \/ form.users = <<>> \/ form.features = <<>>)

\* line 259
idea_block(form) ==
    <<"title:">> \o form.title \o <<"NL", "desc:">> \o form.desc
        \o <<"NL", "users:">> \o form.users \o <<"NL", "features:", "NL">> \o form.features

\* line 305: what the prompt holds of the knowledge snapshot.
PromptKnowledge ==
    IF corpus_text # <<>> THEN Take(corpus_text, KnowledgeBudget)
    ELSE <<"(no instructor feedback)">>

\* line 254-414: the run of a generate submission, from the validation to
\* the result section.
GenerateRun(form, resp) ==
    LET base == [BlankRun EXCEPT !.op = "generate", !.form = form]
        rc == _rule_check(idea_block(form))
        call == _call_openai(resp)
        built == [base EXCEPT !.accepted = TRUE, !.text = idea_block(form), !.rc = rc,
                              !.knowledge = PromptKnowledge,
                              !.calls = call.calls, !.raw = call.raw,
                              !.error = call.error]
        parse == ParseReply(call.raw.text)
        shown == Render(parse.data)
    IN  IF ~Accepted(form)
        THEN [base EXCEPT !.outcome = "rejected", !.error = "required fields",
                          !.ended = "stop"]
        ELSE IF ~call.raw.ok
        THEN [built EXCEPT !.stages = <<"RuleChecked", "PromptBuilt", "ModelCalled">>,
                           !.outcome = "model failed", !.ended = "stop"]
        ELSE IF parse.status = "failed"
        THEN [built EXCEPT !.stages = <<"RuleChecked", "PromptBuilt", "ModelCalled", "Parsed">>,
                           !.outcome = "parse failed", !.error = "JSON parse failed",
                           !.code = parse.code, !.ended = "stop"]
        ELSE IF parse.status = "raised"
        THEN [built EXCEPT !.stages = <<"RuleChecked", "PromptBuilt", "ModelCalled", "Parsed">>,
                           !.outcome = "parse failed", !.error = "JSONDecodeError",
                           !.ended = "exception"]
        ELSE [built EXCEPT !.stages = <<"RuleChecked", "PromptBuilt", "ModelCalled", "Parsed",
                                        "Reported">>,
                           !.outcome = "reported", !.data = parse.data,
                           !.render = shown,
                           !.ended = IF shown.error THEN "exception" ELSE "end"]

\* No failure stops the run before line 329.
StoredResultUnstopped(r) == IF r.accepted THEN r.data ELSE last_result

\* line 329 is reached by the runs that were not stopped before it.
StoredResult(r) == IF r.outcome = "reported" THEN r.data ELSE last_result

\* The token of the URL is compared and not required to be there.
_is_admin_link_unset ==
    LET token == query_admin
    IN  token = ADMIN_LINK_TOKEN

\* line 131-144
_is_admin_link ==
    LET token == query_admin
    IN  ADMIN_LINK_TOKEN # "" /\ token # "" /\ token = ADMIN_LINK_TOKEN

\* line 425
PasswordOk(pwd) == ADMIN_PASSWORD # "" /\ _sha256(pwd) = _sha256(ADMIN_PASSWORD)

\* line 332-417: a run in which no form button was pressed reaches the admin
\* portal when the result section did not raise.
PortalReached == ~Render(last_result).error /\ _is_admin_link

\* --------------------------------------------------------------- actions
Init ==
    /\ client \in {"None", "client"}
    /\ ADMIN_PASSWORD \in {"", "pw"}
    /\ ADMIN_LINK_TOKEN \in {"", "tok"}
    /\ query_admin \in Tokens
    /\ corpus_text = <<>>
    /\ is_admin = FALSE
    /\ last_result = NoneValue
    /\ uploads = <<>>
    /\ run = BlankRun

Finish(r) ==
    /\ run' = r
    /\ last_result' = StoredResult(r)
    /\ UNCHANGED <<config, corpus_text, is_admin, uploads>>

\* line 254-329: the generate button of the idea form.  The endpoint is
\* asked only by a run that passes the validation with a client.
do_generate ==
    \E form \in Forms :
        IF Accepted(form) /\ client # "None"
        THEN \E resp \in Responses : Finish(GenerateRun(form, resp))
        ELSE Finish(GenerateRun(form, [kind |-> "exception", content |-> <<>>]))

\* The reset clears the whole session state.
do_reset_session ==
    /\ last_result' = NoneValue
    /\ corpus_text' = <<>>
    /\ is_admin' = FALSE
    /\ run' = [BlankRun EXCEPT !.op = "reset", !.ended = "rerun"]
    /\ UNCHANGED <<config, uploads>>

\* line 250-252: the reset button of the idea form.
do_reset ==
    /\ last_result' = NoneValue
    /\ run' = [BlankRun EXCEPT !.op = "reset", !.ended = "rerun"]
    /\ UNCHANGED <<config, corpus_text, is_admin, uploads>>

\* line 420-430: the login form of the admin portal.
admin_login ==
    /\ PortalReached
    /\ ~is_admin
    /\ \E pwd \in Passwords :
        IF PasswordOk(pwd)
        THEN /\ is_admin' = TRUE
             /\ run' = [BlankRun EXCEPT !.op = "login", !.pwd = pwd, !.ended = "rerun"]
        ELSE /\ is_admin' = is_admin
             /\ run' = [BlankRun EXCEPT !.op = "login", !.pwd = pwd,
                                        !.error = "authentication failed"]
    /\ UNCHANGED <<config, corpus_text, last_result, uploads>>

\* The texts of the batch are added to the snapshot.
UploadedCorpusAppended(batch) == corpus_text \o JoinTexts(batch)

\* line 439: what an upload stores.
UploadedCorpus(batch) == JoinTexts(batch)

\* line 434-441: files in the uploader of the admin portal.
admin_upload ==
    /\ PortalReached
    /\ is_admin
    /\ \E batch \in Batches :
        /\ uploads' = batch
        /\ corpus_text' = UploadedCorpus(batch)
    /\ run' = [BlankRun EXCEPT !.op = "upload", !.ended = "rerun"]
    /\ UNCHANGED <<config, is_admin, last_result>>

\* line 450-453: the knowledge reset button of the admin portal.
admin_reset ==
    /\ PortalReached
    /\ is_admin
    /\ corpus_text' = <<>>
    /\ run' = [BlankRun EXCEPT !.op = "knowledge reset", !.ended = "rerun"]
    /\ UNCHANGED <<config, is_admin, last_result, uploads>>

\* line 461-463: the logout button of the admin portal.
admin_logout ==
    /\ PortalReached
    /\ is_admin
    /\ is_admin' = FALSE
    /\ run' = [BlankRun EXCEPT !.op = "logout", !.ended = "rerun"]
    /\ UNCHANGED <<config, corpus_text, last_result, uploads>>

Next ==
    \/ do_generate
    \/ do_reset
    \/ admin_login
    \/ admin_upload
    \/ admin_reset
    \/ admin_logout

Spec == Init /\ [][Next]_vars

\* ------------------------------------------------- the rule check alone
\* The phrases a text may hold: a word of no table, and phrases of every
\* row, two spellings and two alternatives of a row among them.
VocabularySeq == <<"plain", "EXE", "exe", "msi", "websocket server", "gpio",
                   "video encoding", "infinite loop", "mass crawling",
                   "thousands of pages", "kakao", "mass push">>

Vocabulary == {VocabularySeq[i] : i \in DOMAIN VocabularySeq}

\* A text of some of the phrases, and the same text with phrases said again.
RuleTexts ==
    {SelectSeq(VocabularySeq, LAMBDA w : w \in S) \o again :
        S \in SUBSET Vocabulary, again \in {<<>>, <<"exe", "kakao", "kakao">>}}

InitRule ==
    /\ client = "None"
    /\ ADMIN_PASSWORD = ""
    /\ ADMIN_LINK_TOKEN = ""
    /\ query_admin = ""
    /\ corpus_text = <<>>
    /\ is_admin = FALSE
    /\ last_result = NoneValue
    /\ uploads = <<>>
    /\ run \in {[BlankRun EXCEPT !.text = text] : text \in RuleTexts}

\* line 62-84 applied to the text.
RuleCheckStep ==
    /\ run.op = "none"
    /\ run' = [run EXCEPT !.op = "rule check", !.rc = _rule_check(run.text)]
    /\ UNCHANGED <<config, corpus_text, is_admin, last_result, uploads>>

NextRule == RuleCheckStep

SpecRule == InitRule /\ [][NextRule]_vars

\* ================================================================ claims
FailedOutcomes == {"model failed", "parse failed"}

StagesOf(outcome) ==
    IF outcome = "model failed" THEN <<"RuleChecked", "PromptBuilt", "ModelCalled">>
    ELSE <<"RuleChecked", "PromptBuilt", "ModelCalled", "Parsed">>

\* C1: a generate run whose model call or parse stage fails ends at that
\* stage: it runs no later stage, leaves last_result as it was, draws no
\* report, and ends (st.stop() or the exception), after which the form can
\* be submitted again.
C1_FailureStopsPipeline ==
    /\ [][(run'.op = "generate" /\ run'.outcome \in FailedOutcomes)
            => /\ run'.stages = StagesOf(run'.outcome)
               /\ last_result' = last_result
               /\ ~run'.render.rendered
               /\ run'.ended \in {"stop", "exception"}]_vars
    /\ []((run.op = "generate" /\ run.outcome \in FailedOutcomes) => ENABLED do_generate)

\* A parse failure after a report was stored: the report is still there.
C1_Witness ==
    /\ run.op = "generate"
    /\ run.outcome = "parse failed"
    /\ last_result.kind = "object"

\* Both attempts of the parse stage fail on the text.
BothAttemptsFail(raw) ==
    /\ ~json_loads(raw).ok
    /\ ~(BraceMatch(raw).found /\ json_loads(BraceMatch(raw).text).ok)

\* C2: when the strict parse and the parse of the text from the first "{"
\* to the last "}" both fail, the run ends in the parse-failed state with the
\* raw text shown unchanged.
C2_RawSurfacedOnParseFailure ==
    (run.op = "generate" /\ run.raw.ok /\ BothAttemptsFail(run.raw.text))
        => /\ run.outcome = "parse failed"
           /\ run.ended = "stop"
           /\ run.code = [shown |-> TRUE, text |-> run.raw.text]

\* C3: with no client, a model call fails at once and no run makes an
\* outbound request.
C3_NoClientNoRequest ==
    client = "None"
        => /\ run.calls = 0
           /\ (run.op = "generate" /\ run.accepted)
                => /\ run.outcome = "model failed"
                   /\ run.error = "not configured"
                   /\ run.stages = <<"RuleChecked", "PromptBuilt", "ModelCalled">>

C3_Witness ==
    /\ client = "None"
    /\ run.op = "generate"
    /\ run.accepted
    /\ run.outcome = "model failed"

FormFilled(form) ==
    form.title # <<>> /\ form.users # <<>> /\ form.features # <<>>

\* C4: a run makes at most one outbound request, exactly one when it is a
\* generate run with a client and a form that passes the validation, and
\* none when it is not a generate run or the form is rejected; so a request
\* that failed is followed by another only in a later generate run.
C4_OneRequestPerSubmission ==
    /\ run.calls <= 1
    /\ run.op # "generate" => run.calls = 0
    /\ (run.op = "generate" /\ ~FormFilled(run.form)) => run.calls = 0
    /\ (run.op = "generate" /\ FormFilled(run.form) /\ client # "None") => run.calls = 1

\* The one request of a run failed.
C4_Witness ==
    /\ run.op = "generate"
    /\ run.outcome = "model failed"
    /\ run.error \in {"call failed", "empty response"}
    /\ run.calls = 1

\* The rows of a table with an alternative in the text.
MatchedRows(table, text) ==
    {i \in DOMAIN table :
        \E j \in DOMAIN text : \E alt \in table[i].pat : Fold(text[j]) = Fold(alt)}

\* C5: with V the disallowed rows and C the caution rows matched by the
\* text, each counted once, the score is clamp(0.8 - 0.3*(V non-empty) -
\* 0.1*|C|, 0.0, 1.0) (in tenths); it is 0.8 when nothing matches and lies
\* in [0.0, 1.0].
C5_RuleScore ==
    run.op = "rule check"
        => LET V == MatchedRows(DISALLOWED, run.text)
               C == MatchedRows(CAUTION, run.text)
               exact == 8 - (IF V # {} THEN 3 ELSE 0) - Cardinality(C)
           IN  /\ run.rc.score = (IF exact < 0 THEN 0 ELSE IF exact > 10 THEN 10 ELSE exact)
               /\ run.rc.score \in 0..10
               /\ (V = {} /\ C = {}) => run.rc.score = 8
               /\ Len(run.rc.violations) = Cardinality(V)
               /\ Len(run.rc.cautions) = Cardinality(C)

\* Every row of both tables matches.
C5_Witness ==
    /\ run.op = "rule check"
    /\ Len(run.rc.violations) = 5
    /\ Len(run.rc.cautions) = 3
    /\ run.rc.score = 2

\* The texts of a batch with a blank line between them, built from the left.
BlankLineJoined(batch) ==
    LET upto[i \in 0..Len(batch)] ==
            IF i = 0 THEN <<>>
            ELSE IF i = 1 THEN _read_file_to_text(batch[1])
            ELSE upto[i - 1] \o <<"NL", "NL">> \o _read_file_to_text(batch[i])
    IN  upto[Len(batch)]

\* C6: the knowledge snapshot is empty or the blank-line join of the texts
\* of the whole batch uploaded last, and the prompt of a generate run holds
\* that snapshot (cut to the budget) or the placeholder of an empty one.
C6_SnapshotWhole ==
    /\ corpus_text = <<>> \/ corpus_text = BlankLineJoined(uploads)
    /\ (run.op = "generate" /\ run.accepted)
        => run.knowledge = IF corpus_text = <<>> THEN <<"(no instructor feedback)">>
                           ELSE Take(BlankLineJoined(uploads), KnowledgeBudget)

\* A prompt built from the snapshot of a batch of two files.
C6_Witness ==
    /\ Len(uploads) = 2
    /\ corpus_text # <<>>
    /\ run.op = "generate"
    /\ run.accepted
    /\ run.knowledge = corpus_text

AdminOps == {"login", "upload", "knowledge reset", "logout"}

\* C7: the knowledge snapshot is written only by an upload or a knowledge
\* reset of a run whose URL token equals the configured, non-empty link
\* token, with is_admin set; is_admin is set only by a login under such a
\* link with a password whose digest is that of the configured, non-empty
\* password, and is cleared by the logout and by nothing else.
C7_AdminGate ==
    [][/\ corpus_text' # corpus_text
            => /\ run'.op \in {"upload", "knowledge reset"}
               /\ ADMIN_LINK_TOKEN # "" /\ query_admin = ADMIN_LINK_TOKEN
               /\ is_admin
       /\ (~is_admin /\ is_admin')
            => /\ run'.op = "login"
               /\ ADMIN_LINK_TOKEN # "" /\ query_admin = ADMIN_LINK_TOKEN
               /\ ADMIN_PASSWORD # ""
               /\ _sha256(run'.pwd) = _sha256(ADMIN_PASSWORD)
       /\ run'.op = "logout" => ~is_admin'
       /\ (is_admin /\ ~is_admin') => run'.op = "logout"]_vars

\* A snapshot written after a login.
C7_Witness ==
    /\ is_admin
    /\ corpus_text # <<>>
    /\ run.op = "upload"

\* C8 as first stated: a form is accepted exactly when it holds a title,
\* the users and a description or the features.
C8_AcceptedWithDescriptionOrFeatures ==
    run.op = "generate"
        => (run.accepted <=> /\ run.form.title # <<>>
                             /\ run.form.users # <<>>
                             /\ (run.form.desc # <<>> \/ run.form.features # <<>>))

\* C8, amended: a form is accepted exactly when it holds a title, the users
\* and the features, whatever the description; a rejected form runs no
\* stage of the pipeline.
C8_AcceptedWithFeatures ==
    run.op = "generate"
        => /\ run.accepted <=> /\ run.form.title # <<>>
                               /\ run.form.users # <<>>
                               /\ run.form.features # <<>>
           /\ ~run.accepted
                => /\ run.outcome = "rejected"
                   /\ run.stages = <<>>
                   /\ run.calls = 0
                   /\ run.ended = "stop"
           /\ run.accepted => run.stages # <<>>

\* A form with a title, the users and a description, and no features, is
\* rejected.
C8_Witness ==
    /\ run.op = "generate"
    /\ run.form.title # <<>>
    /\ run.form.users # <<>>
    /\ run.form.desc # <<>>
    /\ run.form.features = <<>>
    /\ run.outcome = "rejected"

\* C9: when the reply parses to an object, whatever keys it lacks, the
\* stored report is drawn without an error and every key it lacks is read as
\* its default.
C9_ReportRenderedWithDefaults ==
    (run.op = "generate" /\ run.outcome = "reported" /\ run.data.kind = "object")
        => /\ last_result = run.data
           /\ run.render.rendered
           /\ ~run.render.error
           /\ \A k \in Keys \ run.data.keys : run.render.view[k] = Default(k)

\* C10: last_result changes only by a generate run that reaches the report
\* (to the parsed value) or by the form reset (to None); a generate run that
\* fails and every admin run leave it; the form reset leaves corpus_text
\* and is_admin.
C10_LastResultFrame ==
    [][/\ last_result' # last_result
            => \/ run'.op = "generate" /\ run'.outcome = "reported"
                    /\ last_result' = run'.data
               \/ run'.op = "reset" /\ last_result' = NoneValue
       /\ (run'.op = "generate" /\ run'.outcome # "reported") => last_result' = last_result
       /\ run'.op \in AdminOps => last_result' = last_result
       /\ run'.op = "reset"
            => /\ last_result' = NoneValue
               /\ corpus_text' = corpus_text
               /\ is_admin' = is_admin]_vars

\* A form reset in a session that holds a snapshot and an admin login.
C10_Witness ==
    /\ run.op = "reset"
    /\ last_result = NoneValue
    /\ corpus_text # <<>>
    /\ is_admin

\* The rest of C9: a report with a key in it is drawn, and the keys it
\* lacks are read as their defaults.
ReportWithKeysRendered ==
    (run.op = "generate" /\ run.outcome = "reported" /\ run.data.kind = "object"
        /\ run.data.keys # {})
        => /\ run.render.rendered
           /\ ~run.render.error
           /\ \A k \in Keys \ run.data.keys : run.render.view[k] = Default(k)

====
